---- MODULE Spec2Model ----
(***************************************************************************)
(* c2d::Text (source/skeleton/sfml/Text.cpp): the text entity, its lazy    *)
(* geometry cache (m_geometryNeedUpdate) and the layout engine             *)
(* Text::ensureGeometryUpdate with the geometry builders addGlyphQuad and  *)
(* addLine.                                                                *)
(*                                                                         *)
(* Numbers.  Every float of the source is a fixed-point integer counting   *)
(* thousandths (FixedOne per unit), so that the italic shear 0.208f and    *)
(* the half thickness of a decoration bar are exact.  unsigned/int values  *)
(* (m_characterSize, m_style, m_line_spacing, texture sizes) are plain     *)
(* integers.  A texture coordinate, a quotient by the texture size, is the *)
(* pair <<numerator, denominator>>: a zero texture size stays visible.     *)
(***************************************************************************)
EXTENDS Integers, Sequences, FiniteSets

\* one float unit in fixed point
FixedOne == 1000

\* std::numeric_limits<float>::max(), above every length of the model
FltMax == 2000000000

\* the reference character size of `scale`
C2D_DEFAULT_CHAR_SIZE == 16

\* n whole units as a float
F(n) == n * FixedOne

\* std::floor of a float
Floor(v) == (v \div FixedOne) * FixedOne

\* a * b for two floats whose product is exact in thousandths
FMul(a, b) == (a * b) \div FixedOne

Min(a, b) == IF a < b THEN a ELSE b
Max(a, b) == IF a > b THEN a ELSE b

----------------------------------------------------------------------------
(* Style and overflow enumerations, colours                                *)

Regular       == 0
Bold          == 1
Italic        == 2
Underlined    == 4
StrikeThrough == 8

\* m_style & bit
HasStyle(style, bit) == (style \div bit) % 2 = 1

Clamp == 0
Wrap  == 1

Color(r, g, b, a) == [r |-> r, g |-> g, b |-> b, a |-> a]
White == Color(255, 255, 255, 255)
Black == Color(0, 0, 0, 255)
Red   == Color(255, 0, 0, 255)

\* FloatRect() and FloatRect{left, top, width, height}
Rect(l, t, w, h) == [left |-> l, top |-> t, width |-> w, height |-> h]
EmptyRect == Rect(0, 0, 0, 0)

----------------------------------------------------------------------------
(* Characters.  m_string is a std::string of UTF-8 bytes; the layout walks *)
(* the UTF-32 code points that std::wstring_convert::from_bytes decodes.   *)

CH_TAB   == 9
CH_NL    == 10
CH_SPACE == 32
CH_DOT   == 46
CH_a     == 97
CH_b     == 98
CH_x     == 120

\* from_bytes on well-formed one- and two-byte sequences (the only ones the
\* model feeds it); the last branch is never taken on those
RECURSIVE Utf8Decode(_)
Utf8Decode(bytes) ==
    IF bytes = << >> THEN << >>
    ELSE IF Head(bytes) < 128
         THEN <<Head(bytes)>> \o Utf8Decode(Tail(bytes))
    ELSE IF Head(bytes) >= 192 /\ Head(bytes) < 224 /\ Len(bytes) >= 2
         THEN <<(Head(bytes) - 192) * 64 + (bytes[2] - 128)>>
              \o Utf8Decode(Tail(Tail(bytes)))
    ELSE << >>

----------------------------------------------------------------------------
(* The glyph provider (c2d::Font), external to Text.cpp: two fonts, a      *)
(* proportional outline-capable one with kerning and a pen offset, and a   *)
(* fixed-advance bitmap font.  Metrics are linear in the character size.   *)

NoFont == "nullptr"
TtfFont == "ttf"
BmFont == "bmfont"

isBmFont(font) == font = BmFont

\* metric m given for C2D_DEFAULT_CHAR_SIZE, at character size `size`
Scaled(m, size) == (F(m) * size) \div C2D_DEFAULT_CHAR_SIZE

\* glyph box at the default size: <<advance, left, top, width, height>>
BaseGlyph(font, ch) ==
    IF font = BmFont THEN <<8, 0, -8, 8, 8>>
    ELSE CASE ch = CH_SPACE -> <<4, 0, 0, 0, 0>>
           [] ch = CH_DOT   -> <<4, 1, -2, 2, 2>>
           [] ch = CH_a     -> <<8, 1, -8, 6, 8>>
           [] ch = CH_b     -> <<9, 1, -11, 7, 11>>
           [] ch = CH_x     -> <<8, 0, -8, 8, 8>>
           [] OTHER         -> <<8, 1, -11, 6, 11>>

\* column of the glyph in the font atlas
AtlasSlot(ch) ==
    CASE ch = CH_SPACE -> 0
      [] ch = CH_DOT   -> 1
      [] ch = CH_a     -> 2
      [] ch = CH_b     -> 3
      [] ch = CH_x     -> 4
      [] OTHER         -> 5

\* Font::getGlyph(codepoint, size, bold, outlineThickness): bold widens the
\* advance of an outline font by one unit, an outlined glyph is the plain
\* box grown by the thickness on every side
MakeGlyph(g, slot, size, b, outline) ==
    [advance |-> Scaled(g[1], size) + b,
     bounds  |-> Rect(Scaled(g[2], size) - outline,
                      Scaled(g[3], size) - outline,
                      Scaled(g[4], size) + b + 2 * outline,
                      Scaled(g[5], size) + 2 * outline),
     textureRect |-> Rect(F(slot * 2 * size), 0,
                          Scaled(g[4], size) + b + 2 * outline,
                          Scaled(g[5], size) + 2 * outline)]

getGlyph(font, ch, size, bold, outline) ==
    MakeGlyph(BaseGlyph(font, ch), AtlasSlot(ch), size,
              IF bold /\ font # BmFont THEN FixedOne ELSE 0, outline)

\* Font::getKerning(prev, cur, size, bold)
getKerning(font, prev, cur, size, bold) ==
    IF font = BmFont THEN 0
    ELSE IF prev = CH_a /\ cur = CH_b THEN -Scaled(1, size)
    ELSE IF prev = CH_b /\ cur = CH_a THEN Scaled(1, size)
    ELSE 0

\* Font::getLineSpacing(size)
getLineSpacing(font, size) == Scaled(20, size)

\* Font::getUnderlinePosition(size), Font::getUnderlineThickness(size)
getUnderlinePosition(font, size) == Scaled(2, size)
getUnderlineThickness(font, size) == Scaled(1, size)

\* Font::getOffset()
getOffset(font) == IF font = BmFont THEN <<0, 0>> ELSE <<F(2), -F(1)>>

----------------------------------------------------------------------------
(* Geometry builder                                                        *)

Vertex(x, y, color, u, v) ==
    [position |-> <<x, y>>, color |-> color, texCoords |-> <<u, v>>]

\* addLine: the six vertices of an underline or strikethrough bar
addLine(texSize, lineLength, lineTop, color, offset, thickness, outlineThickness) ==
    LET top    == Floor(lineTop + offset - (thickness \div 2) + (FixedOne \div 2))
        bottom == top + Floor(thickness + (FixedOne \div 2))
        u      == <<FixedOne, texSize[1]>>
        v      == <<FixedOne, texSize[2]>>
        l      == -outlineThickness
        r      == lineLength + outlineThickness
        t      == top - outlineThickness
        b      == bottom + outlineThickness
    IN << Vertex(l, t, color, u, v), Vertex(r, t, color, u, v),
          Vertex(l, b, color, u, v), Vertex(l, b, color, u, v),
          Vertex(r, t, color, u, v), Vertex(r, b, color, u, v) >>

\* addGlyphQuad: the six vertices of a glyph quad at pen position (px, py)
addGlyphQuad(texSize, px, py, color, glyph, italic) ==
    LET padding == FixedOne
        left   == glyph.bounds.left - padding
        top    == glyph.bounds.top - padding
        right  == glyph.bounds.left + glyph.bounds.width + padding
        bottom == glyph.bounds.top + glyph.bounds.height + padding
        u1 == <<glyph.textureRect.left - padding, texSize[1]>>
        v1 == <<glyph.textureRect.top - padding, texSize[2]>>
        u2 == <<glyph.textureRect.left + glyph.textureRect.width + padding, texSize[1]>>
        v2 == <<glyph.textureRect.top + glyph.textureRect.height + padding, texSize[2]>>
    IN << Vertex(px + left - FMul(italic, top), py + top, color, u1, v1),
          Vertex(px + right - FMul(italic, top), py + top, color, u2, v1),
          Vertex(px + left - FMul(italic, bottom), py + bottom, color, u1, v2),
          Vertex(px + left - FMul(italic, bottom), py + bottom, color, u1, v2),
          Vertex(px + right - FMul(italic, top), py + top, color, u2, v1),
          Vertex(px + right - FMul(italic, bottom), py + bottom, color, u2, v2) >>

----------------------------------------------------------------------------
(* Layout engine: Text::ensureGeometryUpdate                               *)

\* The locals ensureGeometryUpdate computes before its loop, from the entity
\* t as it stands after the buffers and m_bounds were cleared.
LayoutLocals(t) ==
    LET bold  == HasStyle(t.m_style, Bold)
        scale == t.m_characterSize          \* over C2D_DEFAULT_CHAR_SIZE
        wMax  == IF t.m_max_size[1] > 0 THEN t.m_max_size[1] ELSE FltMax
        hMax  == IF t.m_max_size[2] > 0 THEN t.m_max_size[2] ELSE FltMax
    IN [font   |-> t.m_font,
        size   |-> t.m_characterSize,
        bold   |-> bold,
        underlined    |-> HasStyle(t.m_style, Underlined),
        strikeThrough |-> HasStyle(t.m_style, StrikeThrough),
        italic |-> IF HasStyle(t.m_style, Italic) THEN 208 ELSE 0,
        underlineOffset    |-> getUnderlinePosition(t.m_font, t.m_characterSize),
        underlineThickness |-> getUnderlineThickness(t.m_font, t.m_characterSize),
        hspace |-> getGlyph(t.m_font, CH_SPACE, t.m_characterSize, bold, 0).advance,
        vspace |-> getLineSpacing(t.m_font, t.m_characterSize) + F(t.m_line_spacing),
        x0     |-> (getOffset(t.m_font)[1] * scale) \div C2D_DEFAULT_CHAR_SIZE,
        y0     |-> F(t.m_characterSize)
                   + (getOffset(t.m_font)[2] * scale) \div C2D_DEFAULT_CHAR_SIZE,
        utf32String    |-> Utf8Decode(t.m_string),
        singleLineMode |-> t.m_overflow = 0,
        availableWidth |->
            IF t.m_bounds.width > 0 /\ t.m_bounds.width < wMax
            THEN t.m_bounds.width ELSE wMax,
        availableHeight |->
            IF t.m_bounds.height > 0 /\ t.m_bounds.height < hMax
            THEN t.m_bounds.height ELSE hMax,
        ellipsisWidth |->
            getGlyph(t.m_font, CH_DOT, t.m_characterSize, bold, 0).advance * 3,
        outlineThickness |-> t.m_outlineThickness,
        fillColor    |-> t.m_fillColor,
        outlineColor |-> t.m_outlineColor,
        textureSize  |-> t.m_textureSize]

\* The loop variables before the first character.  `stop` is the way the
\* loop is left: "run" while it runs, "end" after the last character,
\* "ellipsis" and "height" for the two jumps to add_ellipsis, "break" for
\* the hard break.
LayoutStart(c) ==
    [x |-> c.x0, y |-> c.y0,
     minX |-> c.x0, minY |-> c.y0, maxX |-> c.x0, maxY |-> c.y0,
     prevChar |-> 0, truncated |-> FALSE, stop |-> "run",
     vertices |-> << >>, outlineVertices |-> << >>]

\* min/max of the running box over one glyph box at pen (x, y), lines 615-638
ExtendBox(s, x, y, left, top, right, bottom, italic) ==
    [s EXCEPT !.minX = Min(s.minX, x + left - FMul(italic, bottom)),
              !.maxX = Max(s.maxX, x + right - FMul(italic, top)),
              !.minY = Min(s.minY, y + top),
              !.maxY = Max(s.maxY, y + bottom)]

\* lines 609-624: the outline quad and its box, when the thickness is not 0
EmitOutline(c, s, x, y, og) ==
    IF c.outlineThickness # 0
    THEN ExtendBox(
            [s EXCEPT !.outlineVertices = @ \o
                addGlyphQuad(c.textureSize, x, y, c.outlineColor, og, c.italic)],
            x, y,
            og.bounds.left - c.outlineThickness,
            og.bounds.top - c.outlineThickness,
            og.bounds.left + og.bounds.width + c.outlineThickness,
            og.bounds.top + og.bounds.height + c.outlineThickness, c.italic)
    ELSE s

\* lines 626-638: the fill quad and its box
EmitFill(c, s, x, y, glyph) ==
    ExtendBox(
        [s EXCEPT !.vertices = @ \o
            addGlyphQuad(c.textureSize, x, y, c.fillColor, glyph, c.italic)],
        x, y,
        glyph.bounds.left, glyph.bounds.top,
        glyph.bounds.left + glyph.bounds.width,
        glyph.bounds.top + glyph.bounds.height, c.italic)

\* lines 609-641: character ch emitted at (x, y), the pen moved to newX
EmitGlyph(c, s, x, y, ch, newX) ==
    [EmitFill(c,
        EmitOutline(c, s, x, y,
            getGlyph(c.font, ch, c.size, c.bold, c.outlineThickness)),
        x, y, getGlyph(c.font, ch, c.size, c.bold, 0))
     EXCEPT !.x = newX, !.y = y]

\* a space or a tab, were it to leave the pen where it is
WhiteSpaceStill(c, s, x, width) == [s EXCEPT !.x = x]

\* lines 531-551: a space, a tab or (single-line mode) a newline advances
\* the pen by `width`, in single-line mode only while it stays within the
\* available width
WhiteSpace(c, s, x, width) ==
    IF ~c.singleLineMode \/ x + width <= c.availableWidth
    THEN [s EXCEPT !.x = x + width]
    ELSE [s EXCEPT !.x = x]

\* lines 552-566: a newline in multi-line mode
NewLine(c, s) ==
    LET y == s.y + c.vspace
    IN IF y > c.availableHeight
       THEN [s EXCEPT !.x = c.x0, !.y = y, !.truncated = TRUE, !.stop = "height"]
       ELSE [s EXCEPT !.x = c.x0, !.y = y]

\* the wrap branch, were it to go on to the next character after the line
\* feed instead of falling through to the emission
WrapLineDropping(c, s, y, ch, advance) ==
    IF y > c.availableHeight
    THEN [s EXCEPT !.x = c.x0, !.y = y, !.truncated = TRUE, !.stop = "height"]
    ELSE [s EXCEPT !.x = c.x0, !.y = y]

\* the wrap branch, were line 594 (x back to the font offset) missing
WrapLineNoReturn(c, s, y, ch, advance) ==
    IF y > c.availableHeight
    THEN [s EXCEPT !.y = y, !.truncated = TRUE, !.stop = "height"]
    ELSE EmitGlyph(c, s, s.x, y, ch, s.x + advance)

\* lines 591-606: multi-line mode, the glyph goes to a new line at height y
WrapLine(c, s, y, ch, advance) ==
    IF y > c.availableHeight
    THEN [s EXCEPT !.x = c.x0, !.y = y, !.truncated = TRUE, !.stop = "height"]
    ELSE EmitGlyph(c, s, c.x0, y, ch, c.x0 + advance)

\* lines 576-641: the glyph of ch, of the given advance, with the pen at x
PlaceGlyph(c, s, x, ch, advance) ==
    IF ~( \/ c.singleLineMode /\ (x + advance) + c.ellipsisWidth > c.availableWidth
          \/ ~c.singleLineMode /\ (x + advance) > c.availableWidth )
    THEN EmitGlyph(c, s, x, s.y, ch, x + advance)
    ELSE IF c.singleLineMode
    THEN IF x + c.ellipsisWidth <= c.availableWidth
         THEN [s EXCEPT !.x = x, !.truncated = TRUE, !.stop = "ellipsis"]
         ELSE [s EXCEPT !.x = x, !.stop = "break"]
    ELSE WrapLine(c, s, s.y + c.vspace, ch, advance)

\* lines 572-641: a regular character whose pen, after kerning, is at x
RegularChar(c, s, x, ch) ==
    PlaceGlyph(c, s, x, ch, getGlyph(c.font, ch, c.size, c.bold, 0).advance)

\* lines 530-570: the switch on the character, the pen at x after kerning
SwitchChar(c, s, x, ch) ==
    CASE ch = CH_SPACE -> WhiteSpace(c, s, x, c.hspace)
      [] ch = CH_TAB   -> WhiteSpace(c, s, x, c.hspace * 4)
      [] ch = CH_NL    -> IF c.singleLineMode
                          THEN IF x + c.hspace <= c.availableWidth
                               THEN [s EXCEPT !.x = x + c.hspace]
                               ELSE [s EXCEPT !.x = x]
                          ELSE NewLine(c, s)
      [] OTHER         -> RegularChar(c, s, x, ch)

\* lines 523-570: one turn of the loop on character ch
LayoutChar(c, s, ch) ==
    SwitchChar(c, [s EXCEPT !.prevChar = ch],
               s.x + getKerning(c.font, s.prevChar, ch, c.size, c.bold), ch)

\* line 522: for (i = 0; i < utf32String.size(); ++i), i counted from 1;
\* s is the state after character i - 1
RECURSIVE LayoutLoop(_, _, _)
LayoutLoop(c, s, i) ==
    IF s.stop # "run" THEN s
    ELSE IF i > Len(c.utf32String) THEN [s EXCEPT !.stop = "end"]
    ELSE LayoutLoop(c, LayoutChar(c, s, c.utf32String[i]), i + 1)

\* lines 648-672: one dot of the ellipsis
EmitDot(c, s) ==
    [EmitFill(c,
        IF c.outlineThickness # 0
        THEN [s EXCEPT !.outlineVertices = @ \o
                addGlyphQuad(c.textureSize, s.x, s.y, c.outlineColor,
                    getGlyph(c.font, CH_DOT, c.size, c.bold, c.outlineThickness),
                    c.italic)]
        ELSE s,
        s.x, s.y, getGlyph(c.font, CH_DOT, c.size, c.bold, 0))
     EXCEPT !.x = s.x + getGlyph(c.font, CH_DOT, c.size, c.bold, 0).advance]

\* add_ellipsis, were its test strict: x + ellipsisWidth < availableWidth
AddEllipsisStrict(c, s) ==
    IF s.truncated /\ c.singleLineMode /\ s.x + c.ellipsisWidth < c.availableWidth
    THEN EmitDot(c, EmitDot(c, EmitDot(c, s)))
    ELSE s

\* lines 644-673: add_ellipsis
AddEllipsis(c, s) ==
    IF s.truncated /\ c.singleLineMode /\ s.x + c.ellipsisWidth <= c.availableWidth
    THEN EmitDot(c, EmitDot(c, EmitDot(c, s)))
    ELSE s

\* a decoration bar, were it to get no outline bar
AddOutlineBarNever(c, s, offset) == s

\* the outline bar of lines 678-681 and 690-693
AddOutlineBar(c, s, offset) ==
    IF c.outlineThickness # 0
    THEN [s EXCEPT !.outlineVertices = @ \o
            addLine(c.textureSize, s.x, s.y, c.outlineColor, offset,
                    c.underlineThickness, c.outlineThickness)]
    ELSE s

\* lines 677-681 and 689-693: one decoration bar at `offset`
AddBar(c, s, offset) ==
    AddOutlineBar(c,
        [s EXCEPT !.vertices = @ \o
            addLine(c.textureSize, s.x, s.y, c.fillColor, offset,
                    c.underlineThickness, 0)],
        offset)

\* the underline, were the test of the pen (x > 0) missing
AddUnderlineAlways(c, s) ==
    IF c.underlined THEN AddBar(c, s, c.underlineOffset) ELSE s

\* lines 675-682: the underline
AddUnderline(c, s) ==
    IF c.underlined /\ s.x > 0 THEN AddBar(c, s, c.underlineOffset) ELSE s

\* lines 684-694: the strikethrough, at the middle of the box of 'x'
AddStrikeThrough(c, s, xBounds) ==
    IF c.strikeThrough /\ s.x > 0
    THEN AddBar(c, s, xBounds.top + xBounds.height \div 2)
    ELSE s

\* lines 644-694: the ellipsis and the decoration, s being the loop
\* variables at the label add_ellipsis
Finish(c, s) ==
    AddStrikeThrough(c, AddUnderline(c, AddEllipsis(c, s)),
                     getGlyph(c.font, CH_x, c.size, c.bold, 0).bounds)

\* lines 519-642: the loop from its first character to the label
\* add_ellipsis, under locals c
LoopFrom(c) == LayoutLoop(c, LayoutStart(c), 1)

\* lines 519-694: the loop, the ellipsis and the decoration, under locals c
LayoutWith(c) == Finish(c, LoopFrom(c))

\* lines 472-475: the buffers and the bounds cleared
Cleared(t) ==
    [t EXCEPT !.m_vertices = << >>, !.m_outlineVertices = << >>,
              !.m_bounds = EmptyRect]

\* lines 472-694: the layout pass proper, on an entity with a font and a
\* non-empty string: the loop variables at the end of the function
LayoutPass(t) == LayoutWith(LayoutLocals(Cleared(t)))

\* lines 696-701: the buffers and the bounds published
Publish(t, s) ==
    [t EXCEPT !.m_vertices = s.vertices,
              !.m_outlineVertices = s.outlineVertices,
              !.m_bounds = Rect(s.minX, s.minY, s.maxX - s.minX, s.maxY - s.minY),
              !.m_size = <<s.maxX - s.minX, s.maxY - s.minY>>]

\* ensureGeometryUpdate on a dirty entity, were the flag left set (line 468
\* missing) and the fill buffer not cleared (line 473 missing)
RelayoutAppending(t) ==
    IF t.m_font = NoFont \/ t.m_string = << >>
    THEN t
    ELSE [Publish(t, LayoutPass(t)) EXCEPT !.m_vertices = t.m_vertices \o @]

\* lines 468-701: ensureGeometryUpdate on a dirty entity
Relayout(t) ==
    IF t.m_font = NoFont \/ t.m_string = << >>
    THEN [t EXCEPT !.m_geometryNeedUpdate = FALSE]
    ELSE Publish([t EXCEPT !.m_geometryNeedUpdate = FALSE], LayoutPass(t))

\* ensureGeometryUpdate, were the flag cleared after the test of line 470
\* instead of before it
ensureGeometryUpdateLate(t) ==
    IF ~t.m_geometryNeedUpdate \/ t.m_font = NoFont \/ t.m_string = << >>
    THEN t ELSE Relayout(t)

\* Text::ensureGeometryUpdate
ensureGeometryUpdate(t) ==
    IF ~t.m_geometryNeedUpdate THEN t ELSE Relayout(t)

----------------------------------------------------------------------------
(* The text entity: mutators and queries as functions of the object        *)

\* setString, were it to lay the new string out at once
setStringEager(t, string) ==
    IF t.m_string # string
    THEN ensureGeometryUpdate(
            [t EXCEPT !.m_string = string, !.m_geometryNeedUpdate = TRUE])
    ELSE t

\* Text::setString
setString(t, string) ==
    IF t.m_string # string
    THEN [t EXCEPT !.m_string = string, !.m_geometryNeedUpdate = TRUE]
    ELSE t

\* Text::setFont
setFont(t, font) ==
    IF t.m_font # font
    THEN [t EXCEPT !.m_font = font, !.m_geometryNeedUpdate = TRUE]
    ELSE t

\* Text::setCharacterSize
setCharacterSize(t, size) ==
    IF t.m_characterSize # size
    THEN [t EXCEPT !.m_characterSize = size, !.m_geometryNeedUpdate = TRUE]
    ELSE t

\* Text::setStyle
setStyle(t, style) ==
    IF t.m_style # style
    THEN [t EXCEPT !.m_style = style, !.m_geometryNeedUpdate = TRUE]
    ELSE t

\* Text::setOverflow
setOverflow(t, overflow) ==
    IF t.m_overflow # overflow
    THEN [t EXCEPT !.m_overflow = overflow, !.m_geometryNeedUpdate = TRUE]
    ELSE t

\* for (i < getVertexCount()) vertices[i].color = color
Recolor(vertices, color) ==
    [i \in DOMAIN vertices |-> [vertices[i] EXCEPT !.color = color]]

\* setFillColor, were it to mark the geometry dirty as the other setters do
setFillColorDirty(t, color) ==
    IF color # t.m_fillColor
    THEN [t EXCEPT !.m_fillColor = color, !.m_geometryNeedUpdate = TRUE]
    ELSE t

\* Text::setFillColor
setFillColor(t, color) ==
    IF color # t.m_fillColor
    THEN IF ~t.m_geometryNeedUpdate
         THEN [t EXCEPT !.m_fillColor = color,
                        !.m_vertices = Recolor(@, color)]
         ELSE [t EXCEPT !.m_fillColor = color]
    ELSE t

\* Text::setOutlineColor; bm is what m_font->isBmFont() returned
setOutlineColor(t, color, bm) ==
    IF ~bm /\ color # t.m_outlineColor
    THEN IF ~t.m_geometryNeedUpdate
         THEN [t EXCEPT !.m_outlineColor = color,
                        !.m_outlineVertices = Recolor(@, color)]
         ELSE [t EXCEPT !.m_outlineColor = color]
    ELSE t

\* setOutlineThickness, were the test of isBmFont() missing
setOutlineThicknessAnyFont(t, thickness, bm) ==
    IF thickness # t.m_outlineThickness
    THEN [t EXCEPT !.m_outlineThickness = thickness, !.m_geometryNeedUpdate = TRUE]
    ELSE t

\* Text::setOutlineThickness; bm is what m_font->isBmFont() returned
setOutlineThickness(t, thickness, bm) ==
    IF ~bm /\ thickness # t.m_outlineThickness
    THEN [t EXCEPT !.m_outlineThickness = thickness, !.m_geometryNeedUpdate = TRUE]
    ELSE t

\* Text::setAlpha, as far as the entity itself goes: C2DObject::setAlpha
\* (recursive) walks the children and leaves the fields of Text alone
setAlpha(t, alpha, recursive, bm) ==
    IF alpha # t.m_fillColor.a
    THEN LET t1 == setFillColor(t, [t.m_fillColor EXCEPT !.a = alpha])
         IN setOutlineColor(t1, [t1.m_outlineColor EXCEPT !.a = alpha], bm)
    ELSE t

\* Text::getLocalBounds: the entity after the call (m_bounds is returned)
getLocalBounds(t) == ensureGeometryUpdate(t)

\* Text::getGlobalBounds: ensureGeometryUpdate, then getLocalBounds
getGlobalBounds(t) == getLocalBounds(ensureGeometryUpdate(t))

\* Text::getSize: the entity after the call (m_size is returned)
getSize(t) == ensureGeometryUpdate(t)

\* Text::setSize(width, height)
setSize(t, width, height) ==
    LET t1 == [t EXCEPT !.m_max_size = <<width, height>>]
        t2 == IF height > 0 THEN setCharacterSize(t1, height \div FixedOne) ELSE t1
    IN [t2 EXCEPT !.m_geometryNeedUpdate = TRUE]

\* Text::setSizeMax(width, height)
setSizeMax(t, width, height) ==
    [t EXCEPT !.m_max_size = <<width, height>>, !.m_geometryNeedUpdate = TRUE]

\* Text::setLineSpacingModifier
setLineSpacingModifier(t, size) == [t EXCEPT !.m_line_spacing = size]

\* Text::setOrigin: Transformable::setOriginVector from the stored bounds
setOrigin(t, origin) ==
    LET h  == IF t.m_bounds.height > F(t.m_characterSize)
              THEN t.m_bounds.height ELSE F(t.m_characterSize)
        w  == t.m_bounds.width
        o  == t.m_outlineThickness
        v  == CASE origin = "Left"        -> <<0 - o, (h \div 2) - o>>
                [] origin = "TopLeft"     -> <<0 - o, 0 - o>>
                [] origin = "Top"         -> <<(w \div 2) - o, 0 - o>>
                [] origin = "TopRight"    -> <<w - o, 0 - o>>
                [] origin = "Right"       -> <<w - o, (h \div 2) - o>>
                [] origin = "BottomRight" -> <<w - o, h - o>>
                [] origin = "Bottom"      -> <<(w \div 2) - o, h - o>>
                [] origin = "BottomLeft"  -> <<0 - o, h - o>>
                [] origin = "Center"      -> <<(w \div 2) - o, (h \div 2) - o>>
                [] OTHER                  -> t.m_origin
    IN [t EXCEPT !.m_text_origin = origin, !.m_origin = v]

\* lines 382-390 of Text::onUpdate: both branches store texSize and call
\* ensureGeometryUpdate, the first one after setting the dirty flag
UpdateTexture(t, texSize) ==
    ensureGeometryUpdate(
        IF ~isBmFont(t.m_font) /\ texSize # t.m_textureSize
        THEN [t EXCEPT !.m_textureSize = texSize, !.m_geometryNeedUpdate = TRUE]
        ELSE [t EXCEPT !.m_textureSize = texSize])

\* line 392: setOrigin(m_text_origin)
ResetOrigin(t) == setOrigin(t, t.m_text_origin)

\* Text::onUpdate; texSize is m_font->getTexture(size)->getTextureSize()
onUpdate(t, texSize) ==
    IF t.m_font = NoFont \/ t.m_string = << >> THEN t
    ELSE ResetOrigin(UpdateTexture(t, texSize))

\* lines 396-404 of Text::onDraw: the buffers are handed to the renderer
\* (the fields of the object are left alone)
Submits(t, draw) == ~(t.m_font = NoFont \/ t.m_string = << >>) /\ draw

\* getTransform().transformPoint(p) of an entity that was not moved, turned
\* or scaled: the translation by the origin vector
transformPoint(t, p) == <<p[1] - t.m_origin[1], p[2] - t.m_origin[2]>>

\* lines 417-428 of findCharacterPos: the locals of the walk
FindLocals(t) ==
    [font   |-> t.m_font,
     size   |-> t.m_characterSize,
     bold   |-> HasStyle(t.m_style, Bold),
     hspace |-> getGlyph(t.m_font, CH_SPACE, t.m_characterSize,
                         HasStyle(t.m_style, Bold), 0).advance,
     vspace |-> getLineSpacing(t.m_font, t.m_characterSize)
                   + F(t.m_line_spacing),
     utf32String |-> Utf8Decode(t.m_string)]

\* utf32String[i], i counted from 1; junk is what a read past the end yields
CharAt(str, i, junk) == IF i \in DOMAIN str THEN str[i] ELSE junk

\* lines 441-459: the switch and the advance, the pen at x after kerning
FindSwitch(c, p, x, ch) ==
    CASE ch = CH_SPACE -> [p EXCEPT !.x = x + c.hspace]
      [] ch = CH_TAB   -> [p EXCEPT !.x = x + c.hspace * 4]
      [] ch = CH_NL    -> [p EXCEPT !.x = 0, !.y = @ + c.vspace]
      [] OTHER         ->
            [p EXCEPT !.x = x + getGlyph(c.font, ch, c.size, c.bold, 0).advance]

\* lines 434-438: kerning and prevChar
FindChar(c, p, ch) ==
    FindSwitch(c, [p EXCEPT !.prevChar = ch],
               p.x + getKerning(c.font, p.prevChar, ch, c.size, c.bold), ch)

\* line 433: for (i = 0; i < index; ++i), i counted from 1
RECURSIVE FindWalk(_, _, _, _, _)
FindWalk(c, p, i, index, junk) ==
    IF i > index THEN <<p.x, p.y>>
    ELSE FindWalk(c, FindChar(c, p, CharAt(c.utf32String, i, junk)),
                  i + 1, index, junk)

\* lines 431-460: the walk from Vector2f position (0, 0)
FindFrom(c, index, junk) ==
    FindWalk(c, [x |-> 0, y |-> 0, prevChar |-> 0], 1, index, junk)

\* findCharacterPos, were the index not adjusted (lines 421-422 missing)
findCharacterPosUnclamped(t, index, junk) ==
    IF t.m_font = NoFont THEN <<0, 0>>
    ELSE transformPoint(t, FindFrom(FindLocals(t), index, junk))

\* Text::findCharacterPos: the position returned
findCharacterPos(t, index, junk) ==
    IF t.m_font = NoFont THEN <<0, 0>>
    ELSE transformPoint(t,
            FindFrom(FindLocals(t), Min(index, Len(Utf8Decode(t.m_string))),
                     junk))

----------------------------------------------------------------------------
(* State: the fields of one c2d::Text, and the run around it                *)

VARIABLES
    m_string,             \* std::string, UTF-8 bytes
    m_font,               \* Font *, NoFont for nullptr
    m_characterSize,
    m_style,
    m_overflow,
    m_fillColor,
    m_outlineColor,
    m_outlineThickness,
    m_vertices,           \* fill buffer
    m_outlineVertices,    \* outline buffer
    m_bounds,
    m_size,
    m_max_size,
    m_line_spacing,
    m_geometryNeedUpdate, \* the dirty flag
    m_textureSize,
    m_text_origin,
    m_origin,             \* Transformable's origin vector
    calls,                \* number of mutator calls made so far
    lastCall,             \* the member function that ran last
    fault                 \* the process died on a null font

vars == <<m_string, m_font, m_characterSize, m_style, m_overflow, m_fillColor,
          m_outlineColor, m_outlineThickness, m_vertices, m_outlineVertices,
          m_bounds, m_size, m_max_size, m_line_spacing, m_geometryNeedUpdate,
          m_textureSize, m_text_origin, m_origin, calls, lastCall, fault>>

\* the object as a record
This ==
    [m_string |-> m_string, m_font |-> m_font,
     m_characterSize |-> m_characterSize, m_style |-> m_style,
     m_overflow |-> m_overflow, m_fillColor |-> m_fillColor,
     m_outlineColor |-> m_outlineColor,
     m_outlineThickness |-> m_outlineThickness,
     m_vertices |-> m_vertices, m_outlineVertices |-> m_outlineVertices,
     m_bounds |-> m_bounds, m_size |-> m_size, m_max_size |-> m_max_size,
     m_line_spacing |-> m_line_spacing,
     m_geometryNeedUpdate |-> m_geometryNeedUpdate,
     m_textureSize |-> m_textureSize, m_text_origin |-> m_text_origin,
     m_origin |-> m_origin]

\* the object becomes t
Becomes(t) ==
    /\ m_string' = t.m_string
    /\ m_font' = t.m_font
    /\ m_characterSize' = t.m_characterSize
    /\ m_style' = t.m_style
    /\ m_overflow' = t.m_overflow
    /\ m_fillColor' = t.m_fillColor
    /\ m_outlineColor' = t.m_outlineColor
    /\ m_outlineThickness' = t.m_outlineThickness
    /\ m_vertices' = t.m_vertices
    /\ m_outlineVertices' = t.m_outlineVertices
    /\ m_bounds' = t.m_bounds
    /\ m_size' = t.m_size
    /\ m_max_size' = t.m_max_size
    /\ m_line_spacing' = t.m_line_spacing
    /\ m_geometryNeedUpdate' = t.m_geometryNeedUpdate
    /\ m_textureSize' = t.m_textureSize
    /\ m_text_origin' = t.m_text_origin
    /\ m_origin' = t.m_origin

----------------------------------------------------------------------------
(* Inputs                                                                  *)

\* mutator calls in one run of Spec
MaxCalls == 2

\* longest string (in bytes) that SpecLayout lays out
MaxLen == 3

\* largest index passed to findCharacterPos
MaxIndex == 4

\* the indices passed to findCharacterPos
Indices == 0..MaxIndex

\* code points a read past the end of utf32String may yield
JunkChars == {0, CH_a, CH_NL}

Fonts == {TtfFont, BmFont}

\* strings the callers of Spec pass: "", "é" (two bytes), "a\nb"
Strings == { << >>, <<195, 169>>, <<CH_a, CH_NL, CH_b>> }

CharacterSizes == {C2D_DEFAULT_CHAR_SIZE, 2 * C2D_DEFAULT_CHAR_SIZE}
Styles == {Regular, Italic + Underlined}
Overflows == {Clamp, Wrap}
FillColors == {White, Red}
OutlineColors == {Black, Red}
Alphas == {255, 128}
Thicknesses == {0, F(1)}
MaxSizes == { <<0, 0>>, <<F(14), 0>>, <<F(14), F(32)>> }
LineSpacings == {0, 2}
Origins == {"TopLeft", "Center"}

\* what getTextureSize() may return: the atlas of an outline font grows as
\* glyphs are loaded, that of a bitmap font is fixed
TextureSizes(font) ==
    IF isBmFont(font) THEN { <<128, 128>> } ELSE { <<128, 128>>, <<256, 256>> }

----------------------------------------------------------------------------
(* Construction                                                            *)

\* Text::Text(), with font the renderer's font c2d_renderer->getFont()
Text0(font) ==
    [m_string |-> << >>, m_font |-> font,
     m_characterSize |-> C2D_DEFAULT_CHAR_SIZE, m_style |-> Regular,
     m_overflow |-> Clamp, m_fillColor |-> White, m_outlineColor |-> Black,
     m_outlineThickness |-> 0,
     m_vertices |-> << >>, m_outlineVertices |-> << >>,
     m_bounds |-> EmptyRect, m_size |-> <<0, 0>>, m_max_size |-> <<0, 0>>,
     m_line_spacing |-> 0, m_geometryNeedUpdate |-> FALSE,
     m_textureSize |-> <<0, 0>>, m_text_origin |-> "TopLeft",
     m_origin |-> <<0, 0>>]

\* Text::Text(string, characterSize, font), rendererFont standing in for a
\* null font
Text3(string, characterSize, font, rendererFont) ==
    [Text0(IF font = NoFont THEN rendererFont ELSE font) EXCEPT
        !.m_string = string, !.m_characterSize = characterSize,
        !.m_geometryNeedUpdate = TRUE]

\* the object is t
Constructed(t) ==
    /\ m_string = t.m_string
    /\ m_font = t.m_font
    /\ m_characterSize = t.m_characterSize
    /\ m_style = t.m_style
    /\ m_overflow = t.m_overflow
    /\ m_fillColor = t.m_fillColor
    /\ m_outlineColor = t.m_outlineColor
    /\ m_outlineThickness = t.m_outlineThickness
    /\ m_vertices = t.m_vertices
    /\ m_outlineVertices = t.m_outlineVertices
    /\ m_bounds = t.m_bounds
    /\ m_size = t.m_size
    /\ m_max_size = t.m_max_size
    /\ m_line_spacing = t.m_line_spacing
    /\ m_geometryNeedUpdate = t.m_geometryNeedUpdate
    /\ m_textureSize = t.m_textureSize
    /\ m_text_origin = t.m_text_origin
    /\ m_origin = t.m_origin

Init ==
    /\ \E rf \in Fonts :
          \/ Constructed(Text0(rf))
          \/ \E s \in Strings, n \in CharacterSizes, f \in Fonts \cup {NoFont} :
                Constructed(Text3(s, n, f, rf))
    /\ calls = 0
    /\ lastCall = "Text"
    /\ fault = FALSE

----------------------------------------------------------------------------
(* Actions: one call of a member function each                             *)

\* a call returns, leaving the object as t
Return(t, name) ==
    /\ ~fault
    /\ Becomes(t)
    /\ lastCall' = name
    /\ UNCHANGED <<calls, fault>>

\* a mutator call returns, leaving the object as t
Mutated(t, name) ==
    /\ ~fault
    /\ calls < MaxCalls
    /\ Becomes(t)
    /\ lastCall' = name
    /\ calls' = calls + 1
    /\ UNCHANGED fault

\* m_font->isBmFont() through a null m_font ends the process
NullFontFault(name) ==
    /\ ~fault
    /\ calls < MaxCalls
    /\ m_font = NoFont
    /\ fault' = TRUE
    /\ lastCall' = name
    /\ calls' = calls + 1
    /\ UNCHANGED <<m_string, m_font, m_characterSize, m_style, m_overflow,
                   m_fillColor, m_outlineColor, m_outlineThickness, m_vertices,
                   m_outlineVertices, m_bounds, m_size, m_max_size,
                   m_line_spacing, m_geometryNeedUpdate, m_textureSize,
                   m_text_origin, m_origin>>

\* the values m_font->isBmFont() can return: the font's answer, or, read
\* through a null pointer without a trap, either value
IsBmFontResults == IF m_font = NoFont THEN BOOLEAN ELSE {isBmFont(m_font)}

SetString(s) == Mutated(setString(This, s), "setString")

SetFont(f) == Mutated(setFont(This, f), "setFont")

SetCharacterSize(n) == Mutated(setCharacterSize(This, n), "setCharacterSize")

SetStyle(st) == Mutated(setStyle(This, st), "setStyle")

SetOverflow(o) == Mutated(setOverflow(This, o), "setOverflow")

SetFillColor(c) == Mutated(setFillColor(This, c), "setFillColor")

SetOutlineColor(c) ==
    \/ \E bm \in IsBmFontResults :
          Mutated(setOutlineColor(This, c, bm), "setOutlineColor")
    \/ NullFontFault("setOutlineColor")

SetOutlineThickness(th) ==
    \/ \E bm \in IsBmFontResults :
          Mutated(setOutlineThickness(This, th, bm), "setOutlineThickness")
    \/ NullFontFault("setOutlineThickness")

\* setOutlineColor is reached only when the alpha differs
SetAlpha(a, recursive) ==
    \/ \E bm \in IsBmFontResults :
          Mutated(setAlpha(This, a, recursive, bm), "setAlpha")
    \/ a # m_fillColor.a /\ NullFontFault("setAlpha")

SetSize(w, h) == Mutated(setSize(This, w, h), "setSize")

SetSizeMax(w, h) == Mutated(setSizeMax(This, w, h), "setSizeMax")

SetLineSpacingModifier(n) ==
    Mutated(setLineSpacingModifier(This, n), "setLineSpacingModifier")

SetOrigin(o) == Mutated(setOrigin(This, o), "setOrigin")

GetLocalBounds == Return(getLocalBounds(This), "getLocalBounds")

GetGlobalBounds == Return(getGlobalBounds(This), "getGlobalBounds")

GetSize == Return(getSize(This), "getSize")

OnUpdate(texSize) == Return(onUpdate(This, texSize), "onUpdate")

\* onDraw changes no field; lastCall tells a draw that handed the buffers to
\* the renderer from one that returned before
OnDraw(draw) ==
    Return(This, IF Submits(This, draw) THEN "onDraw/draw" ELSE "onDraw")

\* findCharacterPos is const: it returns findCharacterPos(This, index, junk)
FindCharacterPos == Return(This, "findCharacterPos")

Next ==
    \/ \E s \in Strings : SetString(s)
    \/ \E f \in Fonts \cup {NoFont} : SetFont(f)
    \/ \E n \in CharacterSizes : SetCharacterSize(n)
    \/ \E st \in Styles : SetStyle(st)
    \/ \E o \in Overflows : SetOverflow(o)
    \/ \E c \in FillColors : SetFillColor(c)
    \/ \E c \in OutlineColors : SetOutlineColor(c)
    \/ \E th \in Thicknesses : SetOutlineThickness(th)
    \/ \E a \in Alphas, r \in BOOLEAN : SetAlpha(a, r)
    \/ \E m \in MaxSizes : SetSize(m[1], m[2])
    \/ \E m \in MaxSizes : SetSizeMax(m[1], m[2])
    \/ \E n \in LineSpacings : SetLineSpacingModifier(n)
    \/ \E o \in Origins : SetOrigin(o)
    \/ GetLocalBounds
    \/ GetGlobalBounds
    \/ GetSize
    \/ \E ts \in TextureSizes(m_font) : OnUpdate(ts)
    \/ \E draw \in BOOLEAN : OnDraw(draw)
    \/ FindCharacterPos

Spec == Init /\ [][Next]_vars

----------------------------------------------------------------------------
(* The layout engine on its own: an entity configured before its first     *)
(* layout (constructor, then setters, all of which leave the buffers       *)
(* alone), laid out by a query.                                            *)

LayoutAlphabet == {CH_a, CH_b, CH_SPACE, CH_TAB, CH_NL}

\* the byte strings of length n over LayoutAlphabet
StringsOfLen(n) == [1..n -> LayoutAlphabet]

LayoutStrings == UNION { StringsOfLen(n) : n \in 1..MaxLen }

\* max-size boxes <<width, height>>
LayoutBoxes ==
    { <<0, 0>>, <<F(1), 0>>, <<F(24), 0>>, <<F(32), 0>>, <<F(24), F(30)>> }

\* <<style, outline thickness>>
LayoutLooks ==
    { <<Regular, 0>>, <<Italic + Underlined, 0>>, <<Bold + StrikeThrough, F(1)>> }

InitLayout ==
    /\ \E s \in LayoutStrings, f \in Fonts, o \in Overflows,
          box \in LayoutBoxes, look \in LayoutLooks :
          Constructed([Text3(s, C2D_DEFAULT_CHAR_SIZE, f, f) EXCEPT
                          !.m_overflow = o, !.m_max_size = box,
                          !.m_style = look[1],
                          !.m_outlineThickness = look[2]])
    /\ calls = 0
    /\ lastCall = "Text"
    /\ fault = FALSE

NextLayout ==
    \/ GetLocalBounds
    \/ GetSize

SpecLayout == InitLayout /\ [][NextLayout]_vars

----------------------------------------------------------------------------
(* The dirty-flag protocol, under Spec                                     *)

Queries == {"getLocalBounds", "getGlobalBounds", "getSize"}

\* what the entity publishes
Geometry(t) == <<t.m_vertices, t.m_outlineVertices, t.m_bounds>>

\* C1: whenever the dirty flag is clean, the font present and the string
\* non-empty, the fill buffer, the outline buffer and the bounds are those a
\* fresh layout pass over the current attributes produces.
C1_CleanIsFresh ==
    (~m_geometryNeedUpdate /\ m_font # NoFont /\ m_string # << >>)
        => Geometry(This) = Geometry(Relayout(This))

\* C2: ensureGeometryUpdate is idempotent: called a second time with no
\* mutator in between, it leaves the buffers, the bounds and the flag as
\* the first call left them.
C2_Idempotent ==
    ensureGeometryUpdate(ensureGeometryUpdate(This)) = ensureGeometryUpdate(This)

\* a query has laid the text out, and a further call finds nothing to do
C2_Witness ==
    /\ lastCall \in Queries
    /\ calls > 0
    /\ ~m_geometryNeedUpdate
    /\ m_vertices # << >>
    /\ ensureGeometryUpdate(This) = This

\* the entity after each setter is called with the value the entity holds
SameValueCalls(t) ==
    { setString(t, t.m_string), setFont(t, t.m_font),
      setCharacterSize(t, t.m_characterSize), setStyle(t, t.m_style),
      setOverflow(t, t.m_overflow), setFillColor(t, t.m_fillColor),
      setSizeMax(t, t.m_max_size[1], t.m_max_size[2]),
      setSize(t, t.m_max_size[1], t.m_max_size[2]) }
    \cup { setOutlineColor(t, t.m_outlineColor, bm) : bm \in IsBmFontResults }
    \cup { setOutlineThickness(t, t.m_outlineThickness, bm) : bm \in IsBmFontResults }

\* C3: a setter called with the value the entity already holds leaves the
\* dirty flag as it was; setSizeMax and setSize are among these setters.
C3_SameValueKeepsFlag ==
    \A t2 \in SameValueCalls(This) :
        t2.m_geometryNeedUpdate = m_geometryNeedUpdate

\* C4: after a resolving call on an entity whose string is empty or whose
\* font is absent, both buffers are empty and the bounds and the size are
\* the empty rectangle.
C4_NothingToShowIsEmpty ==
    (lastCall \in Queries /\ (m_font = NoFont \/ m_string = << >>))
        => /\ m_vertices = << >>
           /\ m_outlineVertices = << >>
           /\ m_bounds = EmptyRect
           /\ m_size = <<0, 0>>

\* as many vertices, at the same positions, with the same texture coordinates
SameShape(vs, ws) ==
    /\ Len(vs) = Len(ws)
    /\ \A i \in DOMAIN vs :
          /\ vs[i].position = ws[i].position
          /\ vs[i].texCoords = ws[i].texCoords

AllColored(vs, color) == \A i \in DOMAIN vs : vs[i].color = color

\* t2 differs from the object at most in a colour and in the colours of the
\* vertices
OnlyColors(t2) ==
    /\ SameShape(t2.m_vertices, m_vertices)
    /\ SameShape(t2.m_outlineVertices, m_outlineVertices)
    /\ [t2 EXCEPT !.m_vertices = m_vertices,
                  !.m_outlineVertices = m_outlineVertices,
                  !.m_fillColor = m_fillColor,
                  !.m_outlineColor = m_outlineColor] = This

\* C5: on a clean entity setFillColor and setOutlineColor leave the flag
\* clean, the vertex counts, positions, texture coordinates and the bounds
\* as they are, and rewrite nothing but the colour of the vertices of their
\* own buffer: all of them when the stored colour changes, none otherwise.
C5_RecolorInPlace ==
    ~m_geometryNeedUpdate =>
        /\ \A c \in FillColors :
              LET t2 == setFillColor(This, c)
              IN /\ OnlyColors(t2)
                 /\ t2.m_outlineVertices = m_outlineVertices
                 /\ t2.m_outlineColor = m_outlineColor
                 /\ t2.m_fillColor = c
                 /\ IF c # m_fillColor
                    THEN AllColored(t2.m_vertices, c)
                    ELSE t2.m_vertices = m_vertices
        /\ \A c \in OutlineColors, bm \in IsBmFontResults :
              LET t2 == setOutlineColor(This, c, bm)
              IN /\ OnlyColors(t2)
                 /\ t2.m_vertices = m_vertices
                 /\ t2.m_fillColor = m_fillColor
                 /\ IF ~bm /\ c # m_outlineColor
                    THEN /\ t2.m_outlineColor = c
                         /\ AllColored(t2.m_outlineVertices, c)
                    ELSE t2 = This

\* the one mutator call so far recoloured a laid-out text in place
C5_Witness ==
    /\ lastCall = "setFillColor"
    /\ calls = 1
    /\ ~m_geometryNeedUpdate
    /\ m_vertices # << >>
    /\ m_fillColor = Red
    /\ AllColored(m_vertices, Red)

\* C6: on an entity whose font is a bitmap font, setOutlineThickness and
\* setOutlineColor change nothing at all.
C6_BmFontHasNoOutline ==
    (m_font # NoFont /\ isBmFont(m_font)) =>
        \A bm \in IsBmFontResults :
            /\ \A th \in Thicknesses : setOutlineThickness(This, th, bm) = This
            /\ \A c \in OutlineColors : setOutlineColor(This, c, bm) = This

\* setOutlineColor has returned on a laid-out text in a bitmap font
C6_Witness ==
    /\ lastCall = "setOutlineColor"
    /\ calls = 1
    /\ m_font = BmFont
    /\ ~m_geometryNeedUpdate
    /\ m_vertices # << >>
    /\ m_outlineColor = Black
    /\ m_outlineThickness = 0

----------------------------------------------------------------------------
(* The layout engine, under SpecLayout                                     *)

\* a query has laid the text out
LaidOut == lastCall \in Queries /\ ~m_geometryNeedUpdate

\* what the layout pass computes before its loop
Locals == LayoutLocals(Cleared(This))

\* the loop variables at the label add_ellipsis
LoopEnd == LoopFrom(Locals)

IsWhiteSpace(ch) == ch \in {CH_SPACE, CH_TAB, CH_NL}

\* the characters of the string that are drawn with a glyph, in string order
Printable == SelectSeq(Locals.utf32String, LAMBDA ch : ~IsWhiteSpace(ch))

PlainGlyph(ch) == getGlyph(Locals.font, ch, Locals.size, Locals.bold, 0)

\* the k-th quad of the fill buffer
Quad(k) == SubSeq(m_vertices, 6 * k - 5, 6 * k)

\* the pen position a quad of `glyph` was built at: its first vertex, with
\* the padded and sheared corner of the glyph taken off
PenOf(quad, glyph) ==
    << quad[1].position[1] - (glyph.bounds.left - FixedOne)
          + FMul(Locals.italic, glyph.bounds.top - FixedOne),
       quad[1].position[2] - (glyph.bounds.top - FixedOne) >>

\* quad is the fill quad of the glyph of ch, at some pen position
IsQuadOf(quad, ch) ==
    quad = addGlyphQuad(m_textureSize, PenOf(quad, PlainGlyph(ch))[1],
                        PenOf(quad, PlainGlyph(ch))[2], m_fillColor,
                        PlainGlyph(ch), Locals.italic)

\* the number of decoration bars of a text whose pen ends at x
NumBars(x) ==
    (IF Locals.underlined /\ x > 0 THEN 1 ELSE 0)
        + (IF Locals.strikeThrough /\ x > 0 THEN 1 ELSE 0)

\* the final pen x of the text laid out in an unconstrained box
NaturalWidth == LayoutPass([This EXCEPT !.m_max_size = <<0, 0>>]).x

\* single-line mode, in a box narrower than the text
ClampedNarrow ==
    /\ LaidOut
    /\ m_overflow = Clamp
    /\ m_max_size[1] > 0
    /\ m_max_size[1] < NaturalWidth

\* a glyph of the string was not emitted
Dropped == Len(LoopEnd.vertices) < 6 * Len(Printable)

\* the three dots fit between the pen where the loop stopped and the limit
DotsFit ==
    LoopEnd.x + 3 * PlainGlyph(CH_DOT).advance <= Locals.availableWidth

\* the fill quads of three dots, the pen starting at (x, y)
ThreeDots(x, y, advance) ==
    addGlyphQuad(m_textureSize, x, y, m_fillColor,
                 PlainGlyph(CH_DOT), Locals.italic)
    \o addGlyphQuad(m_textureSize, x + advance, y, m_fillColor,
                    PlainGlyph(CH_DOT), Locals.italic)
    \o addGlyphQuad(m_textureSize, x + 2 * advance, y, m_fillColor,
                    PlainGlyph(CH_DOT), Locals.italic)

\* after the n glyph quads of the loop the fill buffer holds the quads
\* `dots` and then `bars` decoration bars, and nothing else
FillTailIs(n, dots, bars) ==
    /\ Len(m_vertices) = n + Len(dots) + 6 * bars
    /\ SubSeq(m_vertices, 1, n) = LoopEnd.vertices
    /\ SubSeq(m_vertices, n + 1, n + Len(dots)) = dots

C8_ClampedWithinWidth ==
    ClampedNarrow =>
        /\ LayoutPass(This).x <= m_max_size[1]
        /\ m_bounds.width <= m_max_size[1]

\* no truncation applies: the height is unconstrained, and the text wraps
\* or the width is unconstrained too
NoTruncation ==
    /\ LaidOut
    /\ m_max_size[2] = 0
    /\ (m_overflow = Wrap \/ m_max_size[1] = 0)

Decorated == Locals.underlined \/ Locals.strikeThrough

\* C9: whenever no truncation applies, the fill buffer holds one glyph quad
\* per non-whitespace character of the string, in string order, followed by
\* decoration bars only; with outline thickness 0 and no decoration style it
\* holds nothing else and the outline buffer is empty.
C9_NoCharacterDropped ==
    NoTruncation =>
        /\ Len(m_vertices) >= 6 * Len(Printable)
        /\ \A k \in 1..Len(Printable) : IsQuadOf(Quad(k), Printable[k])
        /\ Len(m_vertices) - 6 * Len(Printable)
              \in { 6 * NumBars(0), 6 * NumBars(1) }
        /\ (m_outlineThickness = 0 /\ ~Decorated) =>
              /\ Len(m_vertices) = 6 * Len(Printable)
              /\ m_outlineVertices = << >>

\* three glyphs in a box too narrow for them: the third on a second line
C9_Witness ==
    /\ NoTruncation
    /\ m_overflow = Wrap
    /\ m_max_size[1] = F(24)
    /\ m_outlineThickness = 0 /\ ~Decorated
    /\ Len(Printable) = 3
    /\ Len(m_vertices) = 18
    /\ m_vertices[13].position[2] > m_vertices[1].position[2]

\* multi-line mode in a box of limited width
Wrapping == LaidOut /\ m_overflow = Wrap /\ m_max_size[1] > 0

\* the number of glyph quads in the fill buffer
NumGlyphs == Len(LoopEnd.vertices) \div 6

\* the pen x before the k-th glyph quad
PenBefore(k) == PenOf(Quad(k), PlainGlyph(Printable[k]))[1]

\* C10 as stated: in Wrap mode with max width W > 0, the pen x after
\* emitting any glyph exceeds W by at most the advance of that glyph.
C10_AtMostOneAdvancePast ==
    Wrapping =>
        \A k \in 1..NumGlyphs :
            PenBefore(k) + PlainGlyph(Printable[k]).advance
                <= m_max_size[1] + PlainGlyph(Printable[k]).advance

\* C10, amended: in Wrap mode with max width W > 0, every glyph is emitted
\* either with its pen x after it within W or at the start of a line, at
\* the font-offset x; so the pen x after it is at most the larger of W and
\* font-offset x plus its advance.
C10_WithinOrAtLineStart ==
    Wrapping =>
        \A k \in 1..NumGlyphs :
            /\ IsQuadOf(Quad(k), Printable[k])
            /\ \/ PenBefore(k) + PlainGlyph(Printable[k]).advance <= m_max_size[1]
               \/ PenBefore(k) = Locals.x0
            /\ PenBefore(k) + PlainGlyph(Printable[k]).advance
                  <= Max(m_max_size[1], Locals.x0 + PlainGlyph(Printable[k]).advance)

\* a glyph emitted at a font-offset x that is already past W
C10_Witness ==
    /\ Wrapping
    /\ NumGlyphs >= 2
    /\ Locals.x0 > m_max_size[1]
    /\ PenBefore(2) = Locals.x0
    /\ PenBefore(2) + PlainGlyph(Printable[2]).advance
          > m_max_size[1] + PlainGlyph(Printable[2]).advance

----------------------------------------------------------------------------
(* Decoration, under SpecLayout                                            *)

\* the pen at the end of the layout pass
FinalPen == <<LayoutPass(This).x, LayoutPass(This).y>>

\* a decoration bar: a quad whose six vertices share one texture coordinate
IsBar(quad) == \A i \in 1..6 : quad[i].texCoords = quad[1].texCoords

\* the indices of the bar quads of the fill buffer
FillBars == { k \in 1..(Len(m_vertices) \div 6) : IsBar(Quad(k)) }

\* the quad spans x from `from` to `to`
SpansX(quad, from, to) ==
    /\ \A i \in 1..6 : quad[i].position[1] \in {from, to}
    /\ \E i \in 1..6 : quad[i].position[1] = from
    /\ \E i \in 1..6 : quad[i].position[1] = to

\* the fill bar at vertical offset `offset` from the last line
FillBarAt(offset) ==
    addLine(m_textureSize, FinalPen[1], FinalPen[2], m_fillColor, offset,
            Locals.underlineThickness, 0)

StrikeThroughOffset ==
    PlainGlyph(CH_x).bounds.top + PlainGlyph(CH_x).bounds.height \div 2

\* C11: after a layout pass the fill buffer holds an underline bar
\* (respectively a strikethrough bar) if and only if the Underlined
\* (respectively StrikeThrough) bit is set and the final pen x is > 0; a
\* bar is one quad of 6 vertices spanning x from 0 to the final pen x, and
\* the fill buffer holds no other bar.
C11_BarIffStyleAndPen ==
    LaidOut =>
        /\ (\E k \in FillBars : Quad(k) = FillBarAt(Locals.underlineOffset))
              <=> (HasStyle(m_style, Underlined) /\ FinalPen[1] > 0)
        /\ (\E k \in FillBars : Quad(k) = FillBarAt(StrikeThroughOffset))
              <=> (HasStyle(m_style, StrikeThrough) /\ FinalPen[1] > 0)
        /\ Cardinality(FillBars) = NumBars(FinalPen[1])
        /\ \A k \in FillBars : SpansX(Quad(k), 0, FinalPen[1])
        /\ Len(m_vertices) % 6 = 0

\* two glyphs underlined: the bar is the third and last quad
C11_Witness ==
    /\ LaidOut
    /\ HasStyle(m_style, Underlined)
    /\ Len(Printable) = 2
    /\ Len(m_vertices) = 18
    /\ FillBars = {3}
    /\ FinalPen[1] > 0

\* the string is made of spaces, tabs and newlines only
OnlyWhiteSpace == Printable = << >>

\* C12 as stated: a whitespace-only string with Underlined or StrikeThrough
\* set yields no decoration quad; both buffers are empty after layout.
C12_WhiteSpaceUndecorated ==
    (LaidOut /\ OnlyWhiteSpace /\ Decorated)
        => m_vertices = << >> /\ m_outlineVertices = << >>

\* C12, amended: a whitespace-only string yields no glyph quad, and one
\* decoration bar per decoration bit set exactly when the final pen x is
\* > 0; whitespace that fits the box moves the pen, so in single-line mode
\* and an unconstrained box (the font offset x not negative, the advance of
\* a space positive) every whitespace-only string is decorated.
C12_WhiteSpaceDecoratedByPen ==
    (LaidOut /\ OnlyWhiteSpace /\ Decorated)
        => /\ Len(m_vertices) = 6 * Cardinality(FillBars)
           /\ Cardinality(FillBars) = NumBars(FinalPen[1])
           /\ Len(m_outlineVertices)
                 = IF m_outlineThickness # 0 THEN Len(m_vertices) ELSE 0
           /\ (m_max_size = <<0, 0>> /\ m_overflow = Clamp)
                 => m_vertices # << >>

\* spaces only, underlined: one bar and nothing else
C12_Witness ==
    /\ LaidOut
    /\ OnlyWhiteSpace
    /\ m_string = <<CH_SPACE, CH_SPACE>>
    /\ HasStyle(m_style, Underlined)
    /\ m_max_size = <<0, 0>>
    /\ Len(m_vertices) = 6
    /\ FillBars = {1}

----------------------------------------------------------------------------
(* Claims C13, C14: findCharacterPos                                        *)

\* the decoded string of the entity
Decoded == Utf8Decode(m_string)

\* the pen of the layout loop before character i (counted from 0): the pen
\* the loop is left with on the first i characters
LayoutPenAt(i) ==
    <<LoopFrom([Locals EXCEPT !.utf32String = SubSeq(@, 1, i)]).x,
      LoopFrom([Locals EXCEPT !.utf32String = SubSeq(@, 1, i)]).y>>

\* C13 as stated: in an unconstrained box, for every i in 0..length,
\* findCharacterPos(i) is the transform applied to the pen position of the
\* layout pass before character i; findCharacterPos(0) is the transformed
\* layout start and findCharacterPos(length) the transformed pen after the
\* last character.
C13_PositionIsLayoutPen ==
    (lastCall = "findCharacterPos" /\ m_font # NoFont /\ m_max_size = <<0, 0>>)
        => \A i \in 0..Len(Decoded) :
              findCharacterPos(This, i, 0) = transformPoint(This, LayoutPenAt(i))

\* C14: a call of findCharacterPos with an index past the decoded length
\* returns the position of the decoded length, whatever lies past the end of
\* the decoded string.
C14_IndexClamped ==
    lastCall = "findCharacterPos" =>
        \A i \in { j \in Indices : j > Len(Decoded) } : \A junk \in JunkChars :
            findCharacterPos(This, i, junk)
                = findCharacterPos(This, Len(Decoded), 0)

\* "é" (two bytes, one character) asked for the position at index 2
C14_Witness ==
    /\ lastCall = "findCharacterPos"
    /\ m_font # NoFont
    /\ m_string = <<195, 169>>
    /\ Len(Decoded) = 1
    /\ findCharacterPos(This, 2, CH_a) = findCharacterPos(This, 1, 0)
    /\ findCharacterPos(This, 2, CH_a) # findCharacterPos(This, 0, 0)
    /\ findCharacterPosUnclamped(This, 2, CH_a) # findCharacterPos(This, 2, CH_a)

----------------------------------------------------------------------------
(* Claim C15: setAlpha                                                      *)

\* C15 as stated: after setAlpha(a, recursive) on an entity whose font
\* supports outlines, the fill alpha and the outline alpha are both a,
\* whatever they were before the call.
C15_AlphaReachesBoth ==
    (m_font # NoFont /\ ~isBmFont(m_font)) =>
        \A a \in Alphas : \A recursive \in BOOLEAN :
            /\ setAlpha(This, a, recursive, FALSE).m_fillColor.a = a
            /\ setAlpha(This, a, recursive, FALSE).m_outlineColor.a = a

----------------------------------------------------------------------------
(* Claims C16, C17: draws, and the absent font                              *)

\* C16 as stated: whenever onDraw hands the buffers to the renderer, the
\* dirty flag is false, whatever mutators were called before the draw.
C16_DrawIsClean == lastCall = "onDraw/draw" => ~m_geometryNeedUpdate

\* C17 as stated: with the font absent, every mutator and every query
\* returns; none of them ends the process by going through the absent font.
C17_AbsentFontNeverFatal == m_font = NoFont => ~fault

----------------------------------------------------------------------------
(* Claim C18: who clears the dirty flag                                     *)

\* the calls that go through ensureGeometryUpdate whatever the object holds
\* (onUpdate does when the font is present and the string not empty)
CallsLayout ==
    \/ lastCall' \in Queries
    \/ lastCall' = "onUpdate" /\ m_font # NoFont /\ m_string # << >>

\* C18: the dirty flag goes from true to false only in a call that goes
\* through ensureGeometryUpdate, every such call leaves the flag false (with
\* the font absent or the string empty too), and no mutator clears the flag.
C18_OnlyLayoutClears ==
    [][ /\ (m_geometryNeedUpdate /\ ~m_geometryNeedUpdate') => CallsLayout
        /\ CallsLayout => ~m_geometryNeedUpdate'
        /\ ~ensureGeometryUpdate(This).m_geometryNeedUpdate ]_vars

\* a query on a dirty entity without font has returned: the flag is clear
C18_Witness ==
    /\ lastCall \in Queries
    /\ calls >= 1
    /\ m_font = NoFont
    /\ m_string # << >>
    /\ m_vertices = << >>
    /\ ~m_geometryNeedUpdate

----------------------------------------------------------------------------
(* Claim C19: the available width and height of a layout pass               *)

\* a box dimension limited by the max-size box (0: no limit) and by the
\* dimension published before, when that is positive and smaller
LimitedBy(maxDim, published) ==
    IF published > 0 /\ published < (IF maxDim > 0 THEN maxDim ELSE FltMax)
    THEN published
    ELSE IF maxDim > 0 THEN maxDim ELSE FltMax

\* the next query runs a layout pass
PassPending == m_geometryNeedUpdate /\ m_font # NoFont /\ m_string # << >>

\* C19 as stated: the available width (height) a layout pass uses is the
\* max-size dimension, unlimited when 0, limited further by the bounds
\* width (height) the previous pass published when positive and smaller.
C19_LimitedByPublishedBounds ==
    PassPending =>
        /\ Locals.availableWidth = LimitedBy(m_max_size[1], m_bounds.width)
        /\ Locals.availableHeight = LimitedBy(m_max_size[2], m_bounds.height)

----------------------------------------------------------------------------
(* Claim C20: lazy mutators                                                 *)

LazyMutators ==
    {"setString", "setFont", "setCharacterSize", "setStyle", "setOverflow",
     "setOutlineThickness", "setSize", "setSizeMax"}

\* C20: setString, setFont, setCharacterSize, setStyle, setOverflow,
\* setOutlineThickness, setSize and setSizeMax run no layout: a call of one
\* of them leaves the two vertex buffers, the bounds and the size as they
\* were, and the dirty flag set if it was set.
C20_MutatorsAreLazy ==
    [][ lastCall' \in LazyMutators =>
            /\ UNCHANGED <<m_vertices, m_outlineVertices, m_bounds, m_size>>
            /\ (m_geometryNeedUpdate => m_geometryNeedUpdate') ]_vars

\* setString has returned on an entity laid out before: the flag is set and
\* the geometry is still that of the string "é"
C20_Witness ==
    /\ lastCall = "setString"
    /\ m_font # NoFont
    /\ m_string = <<CH_a, CH_NL, CH_b>>
    /\ m_geometryNeedUpdate
    /\ Len(m_vertices) = 6
    /\ m_bounds.width > 0
    /\ m_size = <<m_bounds.width, m_bounds.height>>
    /\ Geometry(This) # Geometry(Relayout(This))

----------------------------------------------------------------------------
(* Claim C21: a text that fits its box, under SpecLayout                    *)

\* single-line mode, in a box at least as wide as the pen travels when the
\* text is laid out without limit
ClampedFitting ==
    /\ LaidOut
    /\ m_overflow = Clamp
    /\ m_max_size[1] > 0
    /\ NaturalWidth <= m_max_size[1]

\* C21 as stated: in Clamp mode a string whose full pen advance fits within
\* the available width is never truncated: every non-whitespace character
\* has its fill quad and no ellipsis quad is appended.
C21_FittingNeverTruncated ==
    ClampedFitting =>
        /\ ~Dropped
        /\ \A k \in 1..Len(Printable) : IsQuadOf(Quad(k), Printable[k])
        /\ FillTailIs(Len(LoopEnd.vertices), << >>, NumBars(LoopEnd.x))

----------------------------------------------------------------------------
(* Claim C22: the two buffers after a layout pass, under SpecLayout         *)

\* a query has run a layout pass to its end
PassCompleted == LaidOut /\ m_font # NoFont /\ m_string # << >>

\* the k-th quad of the outline buffer
OutlineQuad(k) == SubSeq(m_outlineVertices, 6 * k - 5, 6 * k)

\* C22: after every completed layout pass each buffer holds a multiple of 6
\* vertices; with outline thickness 0 the outline buffer is empty, otherwise
\* it holds as many vertices as the fill buffer, one outline quad for each
\* glyph, ellipsis dot and decoration bar, in the same order.
C22_BuffersPaired ==
    PassCompleted =>
        /\ Len(m_vertices) % 6 = 0
        /\ Len(m_outlineVertices) % 6 = 0
        /\ m_outlineThickness = 0 => m_outlineVertices = << >>
        /\ m_outlineThickness # 0 =>
              /\ Len(m_outlineVertices) = Len(m_vertices)
              /\ \A k \in 1..(Len(m_vertices) \div 6) :
                    IsBar(OutlineQuad(k)) <=> IsBar(Quad(k))

\* an outlined text cut after its first glyph: a glyph, three dots and the
\* strikethrough bar in each buffer
C22_Witness ==
    /\ PassCompleted
    /\ m_outlineThickness # 0
    /\ Dropped
    /\ Len(LoopEnd.vertices) = 6
    /\ Len(m_vertices) = 30
    /\ Len(m_outlineVertices) = 30
    /\ FillBars = {5}
    /\ m_outlineVertices # m_vertices

----------------------------------------------------------------------------
(* Claim C23: a bitmap font and the outline                                 *)

\* C23 as stated: across any sequence of setFont, setOutlineThickness and
\* layout passes, whenever the font is a bitmap font the stored outline
\* thickness is 0 and a layout pass leaves the outline buffer empty.
C23_BmFontCarriesNoOutline ==
    (m_font # NoFont /\ isBmFont(m_font)) =>
        /\ m_outlineThickness = 0
        /\ PassCompleted => m_outlineVertices = << >>

====
